---- MODULE Spec2Model ----
(***************************************************************************)
(* Model of the MLOps dashboard's mock data context (MockDataProvider) and *)
(* of the part of PredictiveModelsView that drives it.                     *)
(*                                                                         *)
(* React state is modelled by one variable per useState cell.  Every       *)
(* functional updater passed to a setter is an operator of the previous    *)
(* value; a handler up to its first await is one action, and the code      *)
(* after the await is the action of the timer that resumes it.             *)
(*                                                                         *)
(* Left out: the Math.random() driven numbers (accuracy, metrics, cost and *)
(* drift histories), names, timestamps and the audit entries' details,     *)
(* none of which any handler reads to decide what it does.                 *)
(***************************************************************************)
EXTENDS Integers, Sequences, FiniteSets, TLC

VARIABLES
    mockModels,          \* useState<MLModelExtended[]>
    mockAlerts,          \* useState<MLAlertExtended[]>
    mockAuditLogs,       \* useState<AuditLogEntry[]>
    timers,              \* pending setTimeout callbacks, in order of creation
    nextUuid,            \* number of uuidv4() values drawn so far, plus one
    selectedModel,       \* useState<MLModelExtended | null> of the view
    activeDeploymentTab, \* useState<'monitor' | 'deploy' | 'history'>
    callLog,             \* history: the calls made so far, in order of initiation
    mockFeatures,        \* useState<FeatureStoreEntry[]>, which has no setter
    activeAlertTab,      \* useState<'active' | 'resolved' | 'configure'>
    alertConfigLoading,  \* useState(false)
    selectedComparisonModels, \* useState<MLModelExtended[]>: object references
    aiDocs,              \* useState('')
    isDocsLoading,       \* useState(false)
    aiChatInput,         \* useState('')
    aiChatHistory,       \* useState<{ role; text }[]>
    isAiChatLoading,     \* useState(false)
    fileName,            \* DeepAnalysisTool: useState('')
    fileContent,         \* DeepAnalysisTool: useState('')
    analysis,            \* DeepAnalysisTool: useState('')
    loading,             \* DeepAnalysisTool: useState(false)
    error,               \* DeepAnalysisTool: useState('')
    requests,            \* requests to the AI service awaiting their reply
    nextRequest,         \* number of requests sent so far, plus one
    formEnvironment,     \* DeploymentConfigurationForm: environment
    formTrafficSplitConfig, \* DeploymentConfigurationForm: trafficSplitConfig
    formPartnerModelId   \* DeploymentConfigurationForm: partnerModelId

(* The state of the provider and of the deployment part of the view *)
coreVars == <<mockModels, mockAlerts, mockAuditLogs, timers, nextUuid,
              selectedModel, activeDeploymentTab, callLog>>

(* The state of the alert form, the comparison, the AI documentation, the *)
(* AI chat and the file analysis, and the features                        *)
alertFormVars == <<activeAlertTab, alertConfigLoading>>
docsVars == <<aiDocs, isDocsLoading>>
chatVars == <<aiChatInput, aiChatHistory, isAiChatLoading>>
analysisVars == <<fileName, fileContent, analysis, loading, error>>
requestVars == <<requests, nextRequest>>

(* The state of the deployment form.  The form is mounted on the 'deploy' *)
(* tab only; while it is not mounted the variables hold the values it     *)
(* will be mounted with.                                                  *)
deployFormVars == <<formEnvironment, formTrafficSplitConfig,
                    formPartnerModelId>>

panelVars == <<mockFeatures, alertFormVars, selectedComparisonModels, docsVars,
               chatVars, analysisVars, requestVars>>

viewVars == <<deployFormVars, panelVars>>

vars == <<coreVars, viewVars>>

----------------------------------------------------------------------------
(* Bounds of the model *)

MaxCalls == 2
MaxFormSubmits == 1
MaxRequests == 3

(* Inputs *)

Environments == {"staging", "production", "canary", "ab_test"}
NotesInputs == {"", "checked"}
Strategies == {"Bayesian Optimization"}

(* uuidv4(): the n-th value drawn.  Distinct draws give distinct strings. *)
UuidPool ==
    <<"uuid-01", "uuid-02", "uuid-03", "uuid-04", "uuid-05", "uuid-06",
      "uuid-07", "uuid-08", "uuid-09", "uuid-10", "uuid-11", "uuid-12",
      "uuid-13", "uuid-14", "uuid-15", "uuid-16", "uuid-17", "uuid-18",
      "uuid-19", "uuid-20", "uuid-21", "uuid-22", "uuid-23", "uuid-24",
      "uuid-25", "uuid-26", "uuid-27", "uuid-28", "uuid-29", "uuid-30">>

uuidv4(n) == UuidPool[n]

(* Delays of the setTimeout calls, in seconds *)
RetrainDelay == 5
DeployDelay == 3
RollbackDelay == 2
TrafficSplitDelay == 1
HpoDelay == 5

Delay(op) ==
    CASE op = "retrain" -> RetrainDelay
      [] op = "deploy" -> DeployDelay
      [] op = "rollback" -> RollbackDelay
      [] op = "split" -> TrafficSplitDelay
      [] op = "hpo" -> HpoDelay

----------------------------------------------------------------------------
(* Records *)

(* trafficSplit?: { [modelId: string]: number }.  An object is a set of    *)
(* <<key, share>> pairs with one pair per key; shares are in percent.      *)
NoSplit == [def |-> FALSE, shares |-> {}]

SplitOf(shares) == [def |-> TRUE, shares |-> shares]

(* split[key] = share on an object *)
SetShare(shares, key, share) ==
    {p \in shares : p[1] # key} \cup {<<key, share>>}

ModelDeployment(id, modelId, version, environment, status, trafficSplit) ==
    [id |-> id, modelId |-> modelId, version |-> version,
     environment |-> environment, status |-> status,
     trafficSplit |-> trafficSplit]

generateMockDeployments(modelId) ==
    << ModelDeployment(uuidv4(1), modelId, "1.0", "production", "Deployed",
                       NoSplit),
       ModelDeployment(uuidv4(2), modelId, "1.1-canary", "canary", "Canary",
                       SplitOf({<<modelId, 10>>, <<"previous_model_id", 90>>})) >>

(* hpoRuns is optional in the type and absent from the initial models; an  *)
(* absent list and an empty list are both <<>> here, as (m.hpoRuns || [])  *)
(* makes them in the code.                                                 *)
InitialModels ==
    << [id |-> "model-123", version |-> "1.0", status |-> "Production",
        deploymentStatus |-> "Deployed",
        deploymentHistory |-> generateMockDeployments("model-123"),
        hpoRuns |-> <<>>],
       [id |-> "model-456", version |-> "2.1", status |-> "Staging",
        deploymentStatus |-> "Inactive",
        deploymentHistory |-> <<>>,
        hpoRuns |-> <<>>],
       [id |-> "model-789", version |-> "0.9-beta", status |-> "Training",
        deploymentStatus |-> "Inactive",
        deploymentHistory |-> <<>>,
        hpoRuns |-> <<>>] >>

(* The ids are uuidv4() values of their own; only id and name are kept *)
baseFeatures ==
    <<"user_id", "item_id", "category", "price", "reviews_count",
      "age_group", "country", "engagement_score">>

FeatureIds ==
    <<"feature-uuid-1", "feature-uuid-2", "feature-uuid-3", "feature-uuid-4",
      "feature-uuid-5", "feature-uuid-6", "feature-uuid-7", "feature-uuid-8">>

generateMockFeatures ==
    [i \in 1..Len(baseFeatures) |->
        [id |-> FeatureIds[i], name |-> baseFeatures[i]]]

generateMockAlerts ==
    << [id |-> uuidv4(3), modelId |-> "model-123", status |-> "Active",
        assignedTo |-> "John Doe", resolutionNotes |-> "undefined"],
       [id |-> uuidv4(4), modelId |-> "model-456", status |-> "Resolved",
        assignedTo |-> "undefined",
        resolutionNotes |-> "Scaling group adjusted, latency normalized."],
       [id |-> uuidv4(5), modelId |-> "model-123", status |-> "Active",
        assignedTo |-> "Jane Smith", resolutionNotes |-> "undefined"] >>

AuditLogEntry(id, actor, action, targetType, targetId) ==
    [id |-> id, actor |-> actor, action |-> action,
     targetType |-> targetType, targetId |-> targetId]

generateMockAuditLogs ==
    << AuditLogEntry(uuidv4(6), "Admin User", "model_retrained", "MLModel",
                     "model-123"),
       AuditLogEntry(uuidv4(7), "CI/CD Pipeline", "model_deployed",
                     "Deployment", "dep-789"),
       AuditLogEntry(uuidv4(8), "Monitoring System", "alert_triggered",
                     "Alert", "alert-101") >>

(* The generators have drawn one uuid per deployment, alert and entry *)
FirstFreeUuid ==
    Len(generateMockDeployments("model-123")) + Len(generateMockAlerts)
        + Len(generateMockAuditLogs) + 1

----------------------------------------------------------------------------
(* Helpers over arrays *)

Range(s) == {s[i] : i \in 1..Len(s)}

ModelIds(models) == {models[i].id : i \in 1..Len(models)}

(* mockModels.flatMap(m => m.deploymentHistory || []), as a set *)
allDeployments(models) ==
    UNION {Range(models[i].deploymentHistory) : i \in 1..Len(models)}

AllHpoRuns(models) ==
    UNION {Range(models[i].hpoRuns) : i \in 1..Len(models)}

(* mlModels.find(m => m.id === id) || null *)
Null == [id |-> "null"]

FindModel(models, id) ==
    IF \E i \in 1..Len(models) : models[i].id = id
    THEN models[CHOOSE i \in 1..Len(models) :
                    /\ models[i].id = id
                    /\ \A j \in 1..(i - 1) : models[j].id # id]
    ELSE Null

----------------------------------------------------------------------------
(* Timers and the history of calls *)

(* The delay of handleSaveAlert, in milliseconds: it is not a whole     *)
(* number of seconds                                                    *)
SaveAlertDelayMs == 1500

MsPerSecond == 1000

DelayMs(op) ==
    IF op = "save" THEN SaveAlertDelayMs ELSE MsPerSecond * Delay(op)

NoCont == [view |-> FALSE, mlModels |-> <<>>, selectedId |-> "",
           trafficSplit |-> NoSplit]

(* A pending setTimeout: the operation that set it, the seconds left, the *)
(* call that set it and what its callback closes over.                    *)
Timer(op, call, id, newId, cont) ==
    [op |-> op, remaining |-> Delay(op), call |-> call, id |-> id,
     newId |-> newId, cont |-> cont]

(* One entry per call: the operation, the id passed, the second argument  *)
(* if it is a string ("" otherwise), the id of the record the call        *)
(* created ("" if none), the id of the audit entry the call has appended  *)
(* ("" while it has appended none) and the rank of its completion among   *)
(* the completed calls (0 while it is pending).                           *)
Call(op, id, arg, newId) ==
    [op |-> op, id |-> id, arg |-> arg, newId |-> newId, auditId |-> "",
     doneAt |-> 0]

Completed(log) == {c \in 1..Len(log) : log[c].doneAt # 0}

Complete(log, c, auditId) ==
    [log EXCEPT ![c].auditId = auditId,
                ![c].doneAt = Cardinality(Completed(log)) + 1]

RemoveAt(s, i) == SubSeq(s, 1, i - 1) \o SubSeq(s, i + 1, Len(s))

(* The timer at position i has expired and no timer set before it expires *)
(* before it: timers of equal expiry run in the order they were set.      *)
CanFire(i) ==
    /\ i \in 1..Len(timers)
    /\ timers[i].remaining = 0
    /\ \A j \in 1..(i - 1) :
          ~(timers[j].remaining = 0 /\ DelayMs(timers[j].op) <= DelayMs(timers[i].op))

CanCall == Len(callLog) < MaxCalls

----------------------------------------------------------------------------
(* The updaters passed to setMockModels, setMockAlerts, setMockAuditLogs *)

RetrainStart(prev, id) ==
    [i \in 1..Len(prev) |->
        IF prev[i].id = id THEN [prev[i] EXCEPT !.status = "Training"]
        ELSE prev[i]]

(* mutant: the timer restores 'Production' instead of setting 'Staging' *)
RetrainDone_Restore(prev, id) ==
    [i \in 1..Len(prev) |->
        IF prev[i].id = id THEN [prev[i] EXCEPT !.status = "Production"]
        ELSE prev[i]]

RetrainDone(prev, id) ==
    [i \in 1..Len(prev) |->
        IF prev[i].id = id THEN [prev[i] EXCEPT !.status = "Staging"]
        ELSE prev[i]]

DeployStart(prev, modelId, newDeployment) ==
    [i \in 1..Len(prev) |->
        IF prev[i].id = modelId
        THEN [prev[i] EXCEPT
                !.deploymentHistory = Append(@, newDeployment),
                !.deploymentStatus = "Rolling Update"]
        ELSE prev[i]]

(* mutant: the rollback also resets the model's deploymentStatus *)
RollbackUpdate_ResetModel(prev, deploymentId) ==
    [i \in 1..Len(prev) |->
        [prev[i] EXCEPT
            !.deploymentHistory =
                [k \in 1..Len(@) |->
                    IF @[k].id = deploymentId
                    THEN [@[k] EXCEPT !.status = "Inactive"]
                    ELSE @[k]],
            !.deploymentStatus =
                IF \E k \in 1..Len(prev[i].deploymentHistory) :
                      prev[i].deploymentHistory[k].id = deploymentId
                THEN "Inactive" ELSE @]]

SetDeploymentStatus(history, deploymentId, status) ==
    [k \in 1..Len(history) |->
        IF history[k].id = deploymentId
        THEN [history[k] EXCEPT !.status = status]
        ELSE history[k]]

(* mutant: the final status follows the deployment's environment *)
DeployDone_ByEnvironment(prev, modelId, deploymentId) ==
    LET final(d) ==
            CASE d.environment = "canary" -> "Canary"
              [] d.environment = "ab_test" -> "A/B Testing"
              [] OTHER -> "Deployed"
        done(history) ==
            [k \in 1..Len(history) |->
                IF history[k].id = deploymentId
                THEN [history[k] EXCEPT !.status = final(history[k])]
                ELSE history[k]]
    IN  [i \in 1..Len(prev) |->
            IF prev[i].id = modelId
            THEN [prev[i] EXCEPT
                    !.deploymentHistory = done(@),
                    !.deploymentStatus = "Deployed"]
            ELSE prev[i]]

DeployDone(prev, modelId, deploymentId) ==
    [i \in 1..Len(prev) |->
        IF prev[i].id = modelId
        THEN [prev[i] EXCEPT
                !.deploymentHistory =
                    SetDeploymentStatus(@, deploymentId, "Deployed"),
                !.deploymentStatus = "Deployed"]
        ELSE prev[i]]

(* mutant: the rolled-back deployment is removed from the history *)
RollbackUpdate_Remove(prev, deploymentId) ==
    [i \in 1..Len(prev) |->
        [prev[i] EXCEPT
            !.deploymentHistory =
                SelectSeq(@, LAMBDA d : d.id # deploymentId)]]

RollbackUpdate(prev, deploymentId) ==
    [i \in 1..Len(prev) |->
        [prev[i] EXCEPT
            !.deploymentHistory =
                SetDeploymentStatus(@, deploymentId, "Inactive")]]

(* mutant: the new shares are merged into the shares of the deployment *)
TrafficSplitUpdate_Merge(prev, deploymentId, trafficSplit) ==
    LET keys == {p[1] : p \in trafficSplit.shares}
        merged(old) ==
            SplitOf({p \in old.shares : p[1] \notin keys}
                    \cup trafficSplit.shares)
        update(history) ==
            [k \in 1..Len(history) |->
                IF history[k].id = deploymentId
                THEN [history[k] EXCEPT !.trafficSplit = merged(@)]
                ELSE history[k]]
    IN  [i \in 1..Len(prev) |->
            [prev[i] EXCEPT !.deploymentHistory = update(@)]]

TrafficSplitUpdate(prev, deploymentId, trafficSplit) ==
    [i \in 1..Len(prev) |->
        [prev[i] EXCEPT
            !.deploymentHistory =
                [k \in 1..Len(@) |->
                    IF @[k].id = deploymentId
                    THEN [@[k] EXCEPT !.trafficSplit = trafficSplit]
                    ELSE @[k]]]]

HyperparameterOptimizationRun(id, modelId, strategy) ==
    [id |-> id, modelId |-> modelId, status |-> "Running",
     strategy |-> strategy, trials |-> <<>>,
     completedAt |-> "undefined", bestMetricValue |-> "undefined",
     bestParameters |-> "undefined"]

HpoStart(prev, modelId, newRun) ==
    [i \in 1..Len(prev) |->
        IF prev[i].id = modelId
        THEN [prev[i] EXCEPT !.hpoRuns = Append(@, newRun)]
        ELSE prev[i]]

(* mutant: the run is completed without its best parameters *)
HpoDone_NoBest(prev, modelId, runId) ==
    LET done(runs) ==
            [k \in 1..Len(runs) |->
                IF runs[k].id = runId
                THEN [runs[k] EXCEPT !.status = "Completed",
                                     !.completedAt = "now",
                                     !.bestMetricValue = "0.93"]
                ELSE runs[k]]
    IN  [i \in 1..Len(prev) |->
            IF prev[i].id = modelId
            THEN [prev[i] EXCEPT !.hpoRuns = done(@)]
            ELSE prev[i]]

HpoDone(prev, modelId, runId) ==
    [i \in 1..Len(prev) |->
        IF prev[i].id = modelId
        THEN [prev[i] EXCEPT
                !.hpoRuns =
                    [k \in 1..Len(@) |->
                        IF @[k].id = runId
                        THEN [@[k] EXCEPT
                                !.status = "Completed",
                                !.completedAt = "now",
                                !.bestMetricValue = "0.93",
                                !.bestParameters =
                                    "learningRate=0.005,batchSize=32"]
                        ELSE @[k]]]
        ELSE prev[i]]

AcknowledgeUpdate(prev, alertId, notes) ==
    [i \in 1..Len(prev) |->
        IF prev[i].id = alertId
        THEN [prev[i] EXCEPT !.status = "Acknowledged",
                             !.assignedTo = "Current User",
                             !.resolutionNotes = notes]
        ELSE prev[i]]

(* mutant: the notes are stored as given, without the default text *)
ResolveUpdate_NoDefault(prev, alertId, notes) ==
    [i \in 1..Len(prev) |->
        IF prev[i].id = alertId
        THEN [prev[i] EXCEPT !.status = "Resolved",
                             !.resolutionNotes = notes]
        ELSE prev[i]]

(* notes || 'Resolved manually.' : the empty string is falsy *)
ResolveUpdate(prev, alertId, notes) ==
    [i \in 1..Len(prev) |->
        IF prev[i].id = alertId
        THEN [prev[i] EXCEPT
                !.status = "Resolved",
                !.resolutionNotes =
                    IF notes = "" THEN "Resolved manually." ELSE notes]
        ELSE prev[i]]

(* mutant: the entry is put in front of the log *)
AuditAppend_Prepend(prev, entry) == <<entry>> \o prev

(* mutant: an entry for a target already in the log replaces that entry *)
AuditAppend_Upsert(prev, entry) ==
    IF \E k \in 1..Len(prev) : prev[k].targetId = entry.targetId
    THEN [k \in 1..Len(prev) |->
            IF prev[k].targetId = entry.targetId THEN entry ELSE prev[k]]
    ELSE Append(prev, entry)

(* prev => [...prev, entry] *)
AuditAppend(prev, entry) == Append(prev, entry)

----------------------------------------------------------------------------
(* State after construction *)

(* The view state after construction, and the features *)
InitView ==
    /\ mockFeatures = generateMockFeatures
    /\ activeAlertTab = "active"
    /\ alertConfigLoading = FALSE
    /\ selectedComparisonModels = <<>>
    /\ aiDocs = ""
    /\ isDocsLoading = FALSE
    /\ aiChatInput = ""
    /\ aiChatHistory = <<>>
    /\ isAiChatLoading = FALSE
    /\ fileName = ""
    /\ fileContent = ""
    /\ analysis = ""
    /\ loading = FALSE
    /\ error = ""
    /\ requests = <<>>
    /\ nextRequest = 1
    /\ formEnvironment = "production"
    /\ formTrafficSplitConfig = "100"
    /\ formPartnerModelId = ""

Init ==
    /\ mockModels = InitialModels
    /\ mockAlerts = generateMockAlerts
    /\ mockAuditLogs = generateMockAuditLogs
    /\ timers = <<>>
    /\ nextUuid = FirstFreeUuid
    /\ selectedModel = FindModel(InitialModels, InitialModels[1].id)
    /\ activeDeploymentTab = "monitor"
    /\ callLog = <<>>
    /\ InitView

----------------------------------------------------------------------------
(* The context operations, up to their timer *)

retrainMlModel(id) ==
    /\ CanCall
    /\ mockModels' = RetrainStart(mockModels, id)
    /\ timers' = Append(timers,
                        Timer("retrain", Len(callLog) + 1, id, "", NoCont))
    /\ callLog' = Append(callLog, Call("retrain", id, "", ""))
    /\ UNCHANGED viewVars
    /\ UNCHANGED <<mockAlerts, mockAuditLogs, nextUuid, selectedModel,
                   activeDeploymentTab>>

(* cont is what the caller does when the returned promise resolves *)
deployMlModel(model, environment, cont) ==
    LET newDeployment ==
            ModelDeployment(uuidv4(nextUuid), model.id, model.version,
                            environment, "Rolling Update", NoSplit)
    IN  /\ CanCall
        /\ mockModels' = DeployStart(mockModels, model.id, newDeployment)
        /\ timers' = Append(timers,
                            Timer("deploy", Len(callLog) + 1, model.id,
                                  newDeployment.id, cont))
        /\ nextUuid' = nextUuid + 1
        /\ callLog' = Append(callLog,
                             Call("deploy", model.id, environment,
                                  newDeployment.id))
        /\ UNCHANGED viewVars
        /\ UNCHANGED <<mockAlerts, mockAuditLogs, selectedModel,
                       activeDeploymentTab>>

rollbackDeployment(deploymentId) ==
    /\ CanCall
    /\ mockModels' = RollbackUpdate(mockModels, deploymentId)
    /\ timers' = Append(timers,
                        Timer("rollback", Len(callLog) + 1, deploymentId, "",
                              NoCont))
    /\ callLog' = Append(callLog, Call("rollback", deploymentId, "", ""))
    /\ UNCHANGED viewVars
    /\ UNCHANGED <<mockAlerts, mockAuditLogs, nextUuid, selectedModel,
                   activeDeploymentTab>>

updateTrafficSplit(deploymentId, trafficSplit) ==
    /\ CanCall
    /\ mockModels' = TrafficSplitUpdate(mockModels, deploymentId, trafficSplit)
    /\ timers' = Append(timers,
                        Timer("split", Len(callLog) + 1, deploymentId, "",
                              NoCont))
    /\ callLog' = Append(callLog, Call("split", deploymentId, trafficSplit, ""))
    /\ UNCHANGED viewVars
    /\ UNCHANGED <<mockAlerts, mockAuditLogs, nextUuid, selectedModel,
                   activeDeploymentTab>>

createHPOptionRun(modelId, strategy) ==
    LET newRun ==
            HyperparameterOptimizationRun(uuidv4(nextUuid), modelId, strategy)
    IN  /\ CanCall
        /\ mockModels' = HpoStart(mockModels, modelId, newRun)
        /\ timers' = Append(timers,
                            Timer("hpo", Len(callLog) + 1, modelId, newRun.id,
                                  NoCont))
        /\ nextUuid' = nextUuid + 1
        /\ callLog' = Append(callLog, Call("hpo", modelId, strategy, newRun.id))
        /\ UNCHANGED viewVars
        /\ UNCHANGED <<mockAlerts, mockAuditLogs, selectedModel,
                       activeDeploymentTab>>

acknowledgeAlert(alertId, notes) ==
    /\ CanCall
    /\ mockAlerts' = AcknowledgeUpdate(mockAlerts, alertId, notes)
    /\ mockAuditLogs' =
          AuditAppend(mockAuditLogs,
                      AuditLogEntry(uuidv4(nextUuid), "Current User",
                                    "alert_acknowledged", "Alert", alertId))
    /\ nextUuid' = nextUuid + 1
    /\ callLog' = Complete(Append(callLog, Call("ack", alertId, notes, "")),
                           Len(callLog) + 1, uuidv4(nextUuid))
    /\ UNCHANGED viewVars
    /\ UNCHANGED <<mockModels, timers, selectedModel, activeDeploymentTab>>

resolveAlert(alertId, notes) ==
    /\ CanCall
    /\ mockAlerts' = ResolveUpdate(mockAlerts, alertId, notes)
    /\ mockAuditLogs' =
          AuditAppend(mockAuditLogs,
                      AuditLogEntry(uuidv4(nextUuid), "Current User",
                                    "alert_resolved", "Alert", alertId))
    /\ nextUuid' = nextUuid + 1
    /\ callLog' = Complete(Append(callLog, Call("resolve", alertId, notes, "")),
                           Len(callLog) + 1, uuidv4(nextUuid))
    /\ UNCHANGED viewVars
    /\ UNCHANGED <<mockModels, timers, selectedModel, activeDeploymentTab>>

----------------------------------------------------------------------------
(* The timer callbacks and the code they resume *)

RetrainTimer(i) ==
    /\ CanFire(i)
    /\ timers[i].op = "retrain"
    /\ mockModels' = RetrainDone(mockModels, timers[i].id)
    /\ timers' = RemoveAt(timers, i)
    /\ callLog' = Complete(callLog, timers[i].call, "")
    /\ UNCHANGED viewVars
    /\ UNCHANGED <<mockAlerts, mockAuditLogs, nextUuid, selectedModel,
                   activeDeploymentTab>>

(* The deployment form is rendered on the 'deploy' tab only: a change of *)
(* the tab unmounts it or mounts it anew, with its initial state         *)
MountDeploymentForm ==
    /\ formEnvironment' = "production"
    /\ formTrafficSplitConfig' = "100"
    /\ formPartnerModelId' = ""

(* The rest of deployMlModel, then the rest of the handleDeploy that     *)
(* awaited it, if one did.                                               *)
DeployTimer(i) ==
    /\ CanFire(i)
    /\ timers[i].op = "deploy"
    /\ mockModels' = DeployDone(mockModels, timers[i].id, timers[i].newId)
    /\ mockAuditLogs' =
          AuditAppend(mockAuditLogs,
                      AuditLogEntry(uuidv4(nextUuid), "System",
                                    "model_deployed", "Deployment",
                                    timers[i].newId))
    /\ nextUuid' = nextUuid + 1
    /\ timers' = RemoveAt(timers, i)
    /\ callLog' = Complete(callLog, timers[i].call, uuidv4(nextUuid))
    /\ IF timers[i].cont.view
       THEN /\ activeDeploymentTab' = "monitor"
            /\ selectedModel' = FindModel(timers[i].cont.mlModels,
                                          timers[i].cont.selectedId)
            /\ MountDeploymentForm
       ELSE UNCHANGED <<activeDeploymentTab, selectedModel, deployFormVars>>
    /\ UNCHANGED panelVars
    /\ UNCHANGED mockAlerts

(* mutant: a rollback of a deployment that is not on record is not logged *)
RollbackTimer_KnownOnly(i) ==
    /\ CanFire(i)
    /\ timers[i].op = "rollback"
    /\ timers' = RemoveAt(timers, i)
    /\ IF timers[i].id \in {d.id : d \in allDeployments(mockModels)}
       THEN /\ mockAuditLogs' =
                  AuditAppend(mockAuditLogs,
                              AuditLogEntry(uuidv4(nextUuid), "System",
                                            "deployment_rolled_back",
                                            "Deployment", timers[i].id))
            /\ nextUuid' = nextUuid + 1
            /\ callLog' = Complete(callLog, timers[i].call, uuidv4(nextUuid))
       ELSE /\ callLog' = Complete(callLog, timers[i].call, "")
            /\ UNCHANGED <<mockAuditLogs, nextUuid>>
    /\ UNCHANGED viewVars
    /\ UNCHANGED <<mockModels, mockAlerts, selectedModel, activeDeploymentTab>>

RollbackTimer(i) ==
    /\ CanFire(i)
    /\ timers[i].op = "rollback"
    /\ mockAuditLogs' =
          AuditAppend(mockAuditLogs,
                      AuditLogEntry(uuidv4(nextUuid), "System",
                                    "deployment_rolled_back", "Deployment",
                                    timers[i].id))
    /\ nextUuid' = nextUuid + 1
    /\ timers' = RemoveAt(timers, i)
    /\ callLog' = Complete(callLog, timers[i].call, uuidv4(nextUuid))
    /\ UNCHANGED viewVars
    /\ UNCHANGED <<mockModels, mockAlerts, selectedModel, activeDeploymentTab>>

TrafficSplitTimer(i) ==
    /\ CanFire(i)
    /\ timers[i].op = "split"
    /\ mockAuditLogs' =
          AuditAppend(mockAuditLogs,
                      AuditLogEntry(uuidv4(nextUuid), "System",
                                    "traffic_split_updated", "Deployment",
                                    timers[i].id))
    /\ nextUuid' = nextUuid + 1
    /\ timers' = RemoveAt(timers, i)
    /\ callLog' = Complete(callLog, timers[i].call, uuidv4(nextUuid))
    /\ UNCHANGED viewVars
    /\ UNCHANGED <<mockModels, mockAlerts, selectedModel, activeDeploymentTab>>

HpoTimer(i) ==
    /\ CanFire(i)
    /\ timers[i].op = "hpo"
    /\ mockModels' = HpoDone(mockModels, timers[i].id, timers[i].newId)
    /\ mockAuditLogs' =
          AuditAppend(mockAuditLogs,
                      AuditLogEntry(uuidv4(nextUuid), "User",
                                    "hpo_run_created", "MLModel",
                                    timers[i].id))
    /\ nextUuid' = nextUuid + 1
    /\ timers' = RemoveAt(timers, i)
    /\ callLog' = Complete(callLog, timers[i].call, uuidv4(nextUuid))
    /\ UNCHANGED viewVars
    /\ UNCHANGED <<mockAlerts, selectedModel, activeDeploymentTab>>

(* One second passes.  An expired timer runs before the next second. *)
Tick ==
    /\ timers # <<>>
    /\ \A i \in 1..Len(timers) : timers[i].remaining > 0
    /\ timers' = [i \in 1..Len(timers) |->
                    [timers[i] EXCEPT !.remaining = @ - 1]]
    /\ UNCHANGED viewVars
    /\ UNCHANGED <<mockModels, mockAlerts, mockAuditLogs, nextUuid,
                   selectedModel, activeDeploymentTab, callLog>>

----------------------------------------------------------------------------
(* The view: model selection, the deployment tab and the deployment form *)

(* onClick={() => setSelectedModel(model)} of the registry list *)
SelectModel(i) ==
    /\ i \in 1..Len(mockModels)
    /\ selectedModel' = mockModels[i]
    /\ UNCHANGED viewVars
    /\ UNCHANGED <<mockModels, mockAlerts, mockAuditLogs, timers, nextUuid,
                   activeDeploymentTab, callLog>>

DeploymentTabs == {"monitor", "deploy", "history"}

SetActiveDeploymentTab(tab) ==
    /\ selectedModel # Null
    /\ tab # activeDeploymentTab
    /\ activeDeploymentTab' = tab
    /\ MountDeploymentForm
    /\ UNCHANGED panelVars
    /\ UNCHANGED <<mockModels, mockAlerts, mockAuditLogs, timers, nextUuid,
                   selectedModel, callLog>>

(* parseFloat of the text of the number input; a share is kept in percent *)
NaN == -1

parseFloat(text) ==
    CASE text = "0" -> 0
      [] text = "10" -> 10
      [] text = "50" -> 50
      [] text = "100" -> 100
      [] OTHER -> NaN

(* DeploymentConfigurationForm.handleSubmit: the split passed to onDeploy *)
FormSplit(modelId, environment, trafficSplitConfig, partnerModelId) ==
    IF environment = "canary" \/ environment = "ab_test"
    THEN LET currentModelShare == parseFloat(trafficSplitConfig)
             lessThanOne == currentModelShare # NaN /\ currentModelShare < 100
             split == {<<modelId, currentModelShare>>}
         IN  IF partnerModelId # "" /\ lessThanOne
             THEN SplitOf(SetShare(split, partnerModelId,
                                   100 - currentModelShare))
             ELSE IF lessThanOne
                  THEN SplitOf(SetShare(split, "current_production",
                                        100 - currentModelShare))
                  ELSE SplitOf(split)
    ELSE NoSplit

(* handleDeploy(environment, trafficSplit), up to its await *)
handleDeploy(environment, trafficSplit) ==
    IF selectedModel # Null
    THEN deployMlModel(selectedModel, environment,
                       [view |-> TRUE, mlModels |-> mockModels,
                        selectedId |-> selectedModel.id,
                        trafficSplit |-> trafficSplit])
    ELSE UNCHANGED vars

TrafficSplitConfigs == {"10", "100"}
PartnerModelIds == {"", "model-456"}

(* Submitting the deployment form *)
HandleSubmit(environment, trafficSplitConfig, partnerModelId) ==
    /\ Len(callLog) < MaxFormSubmits
    /\ selectedModel # Null
    /\ activeDeploymentTab = "deploy"
    /\ handleDeploy(environment,
                    FormSplit(selectedModel.id, environment,
                              trafficSplitConfig, partnerModelId))

----------------------------------------------------------------------------
(* Specifications *)

(* The arguments the operations are called with: the records of the    *)
(* first two models, and the id of every deployment and alert.          *)
TargetModels == {mockModels[i] : i \in 1..2}
DeploymentIds == {d.id : d \in allDeployments(mockModels)}
AlertIds == {mockAlerts[i].id : i \in 1..Len(mockAlerts)}
SplitInputs == {SplitOf({<<"model-123", 100>>})}

TimerFires ==
    \E i \in 1..Len(timers) :
        \/ RetrainTimer(i)
        \/ DeployTimer(i)
        \/ RollbackTimer(i)
        \/ TrafficSplitTimer(i)
        \/ HpoTimer(i)

Next ==
    \/ \E m \in TargetModels : retrainMlModel(m.id)
    \/ \E m \in TargetModels, e \in Environments : deployMlModel(m, e, NoCont)
    \/ \E d \in DeploymentIds : rollbackDeployment(d)
    \/ \E d \in DeploymentIds, s \in SplitInputs : updateTrafficSplit(d, s)
    \/ \E m \in TargetModels, s \in Strategies : createHPOptionRun(m.id, s)
    \/ \E a \in AlertIds, n \in NotesInputs : acknowledgeAlert(a, n)
    \/ \E a \in AlertIds, n \in NotesInputs : resolveAlert(a, n)
    \/ TimerFires
    \/ Tick

Spec == Init /\ [][Next]_vars

NextView ==
    \/ \E i \in 1..Len(mockModels) : SelectModel(i)
    \/ \E t \in DeploymentTabs : SetActiveDeploymentTab(t)
    \/ \E e \in Environments, c \in TrafficSplitConfigs,
          p \in PartnerModelIds : HandleSubmit(e, c, p)
    \/ TimerFires
    \/ Tick

SpecView == Init /\ [][NextView]_vars

(* The event loop runs every expired timer, and time passes *)
FairSpec == Spec /\ WF_vars(Tick) /\ WF_vars(TimerFires)

----------------------------------------------------------------------------
(* Observing the steps of an operation *)

(* The step is a call of op: it adds a call of op to the history *)
Called(op) ==
    /\ Len(callLog') = Len(callLog) + 1
    /\ callLog'[Len(callLog')].op = op

NewCall == callLog'[Len(callLog')]

(* The step runs the timer at position i *)
Fired(i) ==
    /\ i \in 1..Len(timers)
    /\ timers' = RemoveAt(timers, i)

StatusOf(models, id) == FindModel(models, id).status

HpoRunIds == {r.id : r \in AllHpoRuns(mockModels)}
AuditIds == {mockAuditLogs[i].id : i \in 1..Len(mockAuditLogs)}

DeploymentById(models, id) ==
    CHOOSE d \in allDeployments(models) : d.id = id

----------------------------------------------------------------------------
(* C1: no operation and no timer completion deletes a record: the sets of *)
(* model, deployment, HPO-run, alert and audit-log ids only grow.         *)
C1_NoRecordDeleted ==
    [][ /\ ModelIds(mockModels) \subseteq ModelIds(mockModels')
        /\ DeploymentIds \subseteq DeploymentIds'
        /\ HpoRunIds \subseteq HpoRunIds'
        /\ AlertIds \subseteq AlertIds'
        /\ AuditIds \subseteq AuditIds' ]_vars

(* A rollback has completed and its deployment is still on record *)
C1_Witness ==
    \E c \in 1..Len(callLog) :
        /\ callLog[c].op = "rollback"
        /\ callLog[c].doneAt # 0
        /\ callLog[c].id \in DeploymentIds
        /\ callLog[c].auditId \in AuditIds

(* C2: retrainMlModel(id) of an existing model sets its status to         *)
(* 'Training' in the step of the call and to 'Staging' in the step of its *)
(* timer, whatever it was before; no other model's status changes.        *)
C2_RetrainSteps ==
    [][ /\ Called("retrain") /\ NewCall.id \in ModelIds(mockModels) =>
              \A m \in ModelIds(mockModels) :
                 StatusOf(mockModels', m) =
                    IF m = NewCall.id THEN "Training"
                    ELSE StatusOf(mockModels, m)
        /\ \A i \in 1..Len(timers) :
              ( /\ Fired(i)
                /\ timers[i].op = "retrain"
                /\ timers[i].id \in ModelIds(mockModels) ) =>
              \A m \in ModelIds(mockModels) :
                 StatusOf(mockModels', m) =
                    IF m = timers[i].id THEN "Staging"
                    ELSE StatusOf(mockModels, m) ]_vars

(* The retrain of the 'Production' model has completed: it is 'Staging' *)
C2_Witness ==
    /\ StatusOf(InitialModels, "model-123") = "Production"
    /\ StatusOf(mockModels, "model-123") = "Staging"
    /\ \E c \in 1..Len(callLog) :
          /\ callLog[c].op = "retrain"
          /\ callLog[c].id = "model-123"
          /\ callLog[c].doneAt # 0

(* C3: deployMlModel(model, environment) of a registry model appends one  *)
(* new 'Rolling Update' deployment to that model's history and sets its   *)
(* deploymentStatus to 'Rolling Update'; the step of its timer sets both  *)
(* that deployment's status and the deploymentStatus to 'Deployed', in    *)
(* every environment.                                                     *)
C3_DeploySteps ==
    [][ /\ Called("deploy") /\ NewCall.id \in ModelIds(mockModels) =>
              LET before == FindModel(mockModels, NewCall.id)
                  after == FindModel(mockModels', NewCall.id)
                  n == Len(after.deploymentHistory)
              IN  /\ n = Len(before.deploymentHistory) + 1
                  /\ SubSeq(after.deploymentHistory, 1, n - 1) =
                        before.deploymentHistory
                  /\ after.deploymentHistory[n].id = NewCall.newId
                  /\ after.deploymentHistory[n].id \notin DeploymentIds
                  /\ after.deploymentHistory[n].status = "Rolling Update"
                  /\ after.deploymentHistory[n].environment = NewCall.arg
                  /\ after.deploymentStatus = "Rolling Update"
                  /\ Cardinality(DeploymentIds') =
                        Cardinality(DeploymentIds) + 1
        /\ \A i \in 1..Len(timers) :
              ( /\ Fired(i)
                /\ timers[i].op = "deploy"
                /\ timers[i].id \in ModelIds(mockModels) ) =>
              /\ timers[i].newId \in DeploymentIds'
              /\ DeploymentById(mockModels', timers[i].newId).status =
                    "Deployed"
              /\ FindModel(mockModels', timers[i].id).deploymentStatus =
                    "Deployed" ]_vars

(* A 'canary' and an 'ab_test' deployment have both completed as 'Deployed' *)
C3_Witness ==
    \A e \in {"canary", "ab_test"} :
        \E c \in 1..Len(callLog) :
            /\ callLog[c].op = "deploy"
            /\ callLog[c].arg = e
            /\ callLog[c].doneAt # 0
            /\ callLog[c].newId \in DeploymentIds
            /\ DeploymentById(mockModels, callLog[c].newId).environment = e
            /\ DeploymentById(mockModels, callLog[c].newId).status = "Deployed"

----------------------------------------------------------------------------
HpoRunById(models, id) == CHOOSE r \in AllHpoRuns(models) : r.id = id

(* C4: an HPO run of an existing model starts 'Running' with no trials,   *)
(* becomes 'Completed' with completedAt, bestMetricValue and              *)
(* bestParameters set once its timer has run, stays 'Completed', and is   *)
(* never 'Pending' or 'Failed'.  A run is 'Running' only while its timer  *)
(* is pending, a 'Completed' run is on record and 'Completed' after every *)
(* step, and again and again every run on record is 'Completed': so each  *)
(* run is 'Completed' from some state on.                                 *)
C4_HpoLifecycle ==
    /\ [](\A r \in AllHpoRuns(mockModels) :
            /\ r.status \in {"Running", "Completed"}
            /\ r.status = "Running" =>
                  /\ r.trials = <<>>
                  /\ \E i \in 1..Len(timers) :
                        timers[i].op = "hpo" /\ timers[i].newId = r.id
            /\ r.status = "Completed" =>
                  /\ r.completedAt # "undefined"
                  /\ r.bestMetricValue # "undefined"
                  /\ r.bestParameters # "undefined")
    /\ [][ /\ Called("hpo") /\ NewCall.id \in ModelIds(mockModels) =>
                 /\ NewCall.newId \notin HpoRunIds
                 /\ NewCall.newId \in HpoRunIds'
                 /\ HpoRunById(mockModels', NewCall.newId).status = "Running"
                 /\ HpoRunById(mockModels', NewCall.newId).trials = <<>>
           /\ \A r \in AllHpoRuns(mockModels) :
                 r.status = "Completed" =>
                    /\ r.id \in HpoRunIds'
                    /\ HpoRunById(mockModels', r.id).status = "Completed"
         ]_vars
    /\ []<>(\A r \in AllHpoRuns(mockModels) : r.status = "Completed")

(* An HPO run has been completed by its timer *)
C4_Witness ==
    \E c \in 1..Len(callLog) :
        /\ callLog[c].op = "hpo"
        /\ callLog[c].doneAt # 0
        /\ callLog[c].newId \in HpoRunIds
        /\ HpoRunById(mockModels, callLog[c].newId).status = "Completed"
        /\ HpoRunById(mockModels, callLog[c].newId).bestMetricValue = "0.93"

(* C5, as claimed: from the call of rollbackDeployment(d) until its timer *)
(* has run, deployment d is 'Inactive' and the call has no audit entry.   *)
C5_InactiveUntilLogged ==
    \A c \in 1..Len(callLog) :
        ( /\ callLog[c].op = "rollback"
          /\ callLog[c].id \in DeploymentIds
          /\ \E i \in 1..Len(timers) : timers[i].call = c ) =>
        /\ DeploymentById(mockModels, callLog[c].id).status = "Inactive"
        /\ callLog[c].auditId = ""
        /\ \A k \in (Len(generateMockAuditLogs) + 1)..Len(mockAuditLogs) :
              ~( /\ mockAuditLogs[k].action = "deployment_rolled_back"
                 /\ mockAuditLogs[k].targetId = callLog[c].id
                 /\ \A b \in 1..Len(callLog) :
                       callLog[b].auditId # mockAuditLogs[k].id )

(* Position of the audit entry of call c in the log, 0 if it has none *)
AuditPosition(c) ==
    IF \E k \in 1..Len(mockAuditLogs) : mockAuditLogs[k].id = callLog[c].auditId
    THEN CHOOSE k \in 1..Len(mockAuditLogs) :
            mockAuditLogs[k].id = callLog[c].auditId
    ELSE 0

Logged == {c \in 1..Len(callLog) : AuditPosition(c) # 0}

(* C6: the audit entries of the calls are in the log in the order in      *)
(* which the calls completed, whatever the order in which they started.   *)
C6_LoggedInCompletionOrder ==
    \A a, b \in Logged :
        (AuditPosition(a) < AuditPosition(b)) <=>
        (callLog[a].doneAt < callLog[b].doneAt)

(* An operation with a shorter delay, started after an HPO run, is logged *)
(* before it.                                                             *)
C6_Witness ==
    \E a, b \in Logged :
        /\ a < b
        /\ callLog[a].op = "hpo"
        /\ callLog[b].op \in {"split", "rollback", "deploy"}
        /\ AuditPosition(b) < AuditPosition(a)

(* C7: a rollback leaves every model's deploymentStatus as it is, so the  *)
(* deploymentStatus need not agree with the statuses of the deployments.  *)
C7_RollbackKeepsDeploymentStatus ==
    [][ Called("rollback") =>
           \A m \in ModelIds(mockModels) :
              FindModel(mockModels', m).deploymentStatus =
                 FindModel(mockModels, m).deploymentStatus ]_vars

(* Every deployment of a model is 'Inactive', the model is 'Deployed' *)
C7_Witness ==
    \E i \in 1..Len(mockModels) :
        /\ mockModels[i].deploymentHistory # <<>>
        /\ \A k \in 1..Len(mockModels[i].deploymentHistory) :
              mockModels[i].deploymentHistory[k].status = "Inactive"
        /\ mockModels[i].deploymentStatus = "Deployed"
        /\ \E c \in 1..Len(callLog) : callLog[c].op = "rollback"

----------------------------------------------------------------------------
(* C8, as claimed: the deployment created by a handleDeploy for 'canary'  *)
(* or 'ab_test' carries the traffic split the form passed to onDeploy.    *)
C8_FormSplitRecorded ==
    \A i \in 1..Len(timers) :
        ( /\ timers[i].op = "deploy"
          /\ timers[i].cont.view
          /\ timers[i].cont.trafficSplit.def ) =>
        /\ timers[i].newId \in DeploymentIds
        /\ DeploymentById(mockModels, timers[i].newId).trafficSplit =
              timers[i].cont.trafficSplit

(* The action and the target of the audit entry of a call *)
AuditAction(op) ==
    CASE op = "deploy" -> "model_deployed"
      [] op = "rollback" -> "deployment_rolled_back"
      [] op = "split" -> "traffic_split_updated"
      [] op = "hpo" -> "hpo_run_created"
      [] op = "ack" -> "alert_acknowledged"
      [] op = "resolve" -> "alert_resolved"

AuditTarget(call) == IF call.op = "deploy" THEN call.newId ELSE call.id

Pending(c) == \E i \in 1..Len(timers) : timers[i].call = c

EntriesOf(c) ==
    {k \in (Len(generateMockAuditLogs) + 1)..Len(mockAuditLogs) :
        mockAuditLogs[k].id = callLog[c].auditId}

(* C9: every call of an operation other than retrainMlModel has one audit *)
(* entry once its timer has run (at once for the alert operations) and    *)
(* none before, naming the operation and the id passed (for a deployment  *)
(* the new deployment's id); an entry is appended at the end and the      *)
(* entries before it are left as they are.                                *)
C9_OneAuditEntryPerCall ==
    /\ [](/\ Len(mockAuditLogs) =
               Len(generateMockAuditLogs) +
               Cardinality({c \in 1..Len(callLog) :
                              callLog[c].op # "retrain" /\ ~Pending(c)})
          /\ \A c \in 1..Len(callLog) :
                callLog[c].op # "retrain" =>
                   IF Pending(c)
                   THEN EntriesOf(c) = {}
                   ELSE /\ Cardinality(EntriesOf(c)) = 1
                        /\ \A k \in EntriesOf(c) :
                              /\ mockAuditLogs[k].action =
                                    AuditAction(callLog[c].op)
                              /\ mockAuditLogs[k].targetId =
                                    AuditTarget(callLog[c]))
    /\ [][ /\ Len(mockAuditLogs') >= Len(mockAuditLogs)
           /\ SubSeq(mockAuditLogs', 1, Len(mockAuditLogs)) = mockAuditLogs
           /\ \A c \in 1..Len(callLog) :
                 (callLog[c].op # "retrain" /\ Pending(c) /\ ~Pending(c)') =>
                    /\ Len(mockAuditLogs') = Len(mockAuditLogs) + 1
                    /\ mockAuditLogs'[Len(mockAuditLogs')].id =
                          callLog'[c].auditId
           /\ Called("ack") \/ Called("resolve") =>
                 /\ Len(mockAuditLogs') = Len(mockAuditLogs) + 1
                 /\ mockAuditLogs'[Len(mockAuditLogs')].id = NewCall.auditId
         ]_vars

(* A rollback of a deployment was logged after the completion of the      *)
(* deployMlModel call that created it.                                    *)
C9_Witness ==
    \E a, b \in 1..Len(callLog) :
        /\ callLog[a].op = "deploy"
        /\ callLog[b].op = "rollback"
        /\ callLog[b].id = callLog[a].newId
        /\ EntriesOf(a) # {}
        /\ EntriesOf(b) # {}
        /\ \A j \in EntriesOf(a), k \in EntriesOf(b) :
              /\ j < k
              /\ mockAuditLogs[j].targetId = mockAuditLogs[k].targetId

AlertById(alerts, id) == CHOOSE a \in Range(alerts) : a.id = id

(* C10: acknowledgeAlert(id, notes) makes the alert 'Acknowledged',       *)
(* assigned to 'Current User', with resolutionNotes = notes;              *)
(* resolveAlert(id, notes) makes it 'Resolved' with resolutionNotes =     *)
(* notes, or 'Resolved manually.' for empty notes, and keeps assignedTo;  *)
(* both leave the other alerts and the models as they are.                *)
C10_AlertSteps ==
    [][ /\ Called("ack") =>
              /\ mockModels' = mockModels
              /\ Len(mockAlerts') = Len(mockAlerts)
              /\ \A i \in 1..Len(mockAlerts) :
                    IF mockAlerts[i].id = NewCall.id
                    THEN /\ mockAlerts'[i].status = "Acknowledged"
                         /\ mockAlerts'[i].assignedTo = "Current User"
                         /\ mockAlerts'[i].resolutionNotes = NewCall.arg
                         /\ mockAlerts'[i].id = mockAlerts[i].id
                         /\ mockAlerts'[i].modelId = mockAlerts[i].modelId
                    ELSE mockAlerts'[i] = mockAlerts[i]
        /\ Called("resolve") =>
              /\ mockModels' = mockModels
              /\ Len(mockAlerts') = Len(mockAlerts)
              /\ \A i \in 1..Len(mockAlerts) :
                    IF mockAlerts[i].id = NewCall.id
                    THEN /\ mockAlerts'[i].status = "Resolved"
                         /\ mockAlerts'[i].resolutionNotes =
                               (IF NewCall.arg = "" THEN "Resolved manually."
                                ELSE NewCall.arg)
                         /\ mockAlerts'[i].assignedTo = mockAlerts[i].assignedTo
                         /\ mockAlerts'[i].id = mockAlerts[i].id
                         /\ mockAlerts'[i].modelId = mockAlerts[i].modelId
                    ELSE mockAlerts'[i] = mockAlerts[i] ]_vars

(* An alert was acknowledged with notes and then resolved without notes *)
C10_Witness ==
    \E a, b \in 1..Len(callLog) :
        /\ a < b
        /\ callLog[a].op = "ack"
        /\ callLog[a].arg # ""
        /\ callLog[b].op = "resolve"
        /\ callLog[b].arg = ""
        /\ callLog[b].id = callLog[a].id
        /\ callLog[b].id \in AlertIds
        /\ AlertById(mockAlerts, callLog[b].id).status = "Resolved"
        /\ AlertById(mockAlerts, callLog[b].id).assignedTo = "Current User"
        /\ AlertById(mockAlerts, callLog[b].id).resolutionNotes =
              "Resolved manually."

(* C11, as claimed: a deployment that a call of rollbackDeployment has   *)
(* set to 'Inactive' is 'Inactive' in every later state, also when the   *)
(* deployMlModel call that created it is still waiting on its timer.     *)
C11_RolledBackStaysInactive ==
    [][ \A c \in 1..Len(callLog) :
           ( /\ callLog[c].op = "rollback"
             /\ callLog[c].id \in DeploymentIds
             /\ DeploymentById(mockModels, callLog[c].id).status =
                   "Inactive" ) =>
           DeploymentById(mockModels', callLog[c].id).status = "Inactive"
      ]_vars

(* C12, as claimed: whenever a retrain timer is pending for a model, the *)
(* status of that model is 'Training', also when retrainMlModel was      *)
(* called twice on the model within the five seconds of a retraining.    *)
C12_TrainingWhilePending ==
    \A i \in 1..Len(timers) :
        ( /\ timers[i].op = "retrain"
          /\ timers[i].id \in ModelIds(mockModels) ) =>
        StatusOf(mockModels, timers[i].id) = "Training"

----------------------------------------------------------------------------
(* The view: the Retrain Model button of the selected model *)

(* onClick={() => retrainMlModel(selectedModel.id)}, with                *)
(* disabled={selectedModel.status === 'Training'}: the button reads the  *)
(* record held in the selectedModel state, not the registry.             *)
RetrainModelButton ==
    /\ selectedModel # Null
    /\ selectedModel.status # "Training"
    /\ retrainMlModel(selectedModel.id)

NextRegistryView ==
    \/ \E i \in 1..Len(mockModels) : SelectModel(i)
    \/ RetrainModelButton
    \/ TimerFires
    \/ Tick

SpecRegistryView == Init /\ [][NextRegistryView]_vars

(* C13, as claimed: the view never calls retrainMlModel for a model whose *)
(* status in the registry is 'Training': the Retrain button is disabled   *)
(* from the click that starts a retraining until its timer fires.         *)
C13_NoRetrainWhileTraining ==
    [][ Called("retrain") =>
           StatusOf(mockModels, NewCall.id) # "Training" ]_vars

(* C14, as claimed: every model whose status is 'Training' eventually    *)
(* reaches status 'Staging', the model 'model-789' that the provider     *)
(* creates with status 'Training' included.                              *)
C14_TrainingReachesStaging ==
    \A m \in ModelIds(InitialModels) :
        (StatusOf(mockModels, m) = "Training") ~>
            (StatusOf(mockModels, m) = "Staging")

----------------------------------------------------------------------------
(* The step completes a handleDeploy: it runs the deploy timer at        *)
(* position i, whose call was made by the view                           *)
HandleDeployDone(i) ==
    /\ Fired(i)
    /\ timers[i].op = "deploy"
    /\ timers[i].cont.view

(* C15, as claimed: when handleDeploy finishes, the selected model is    *)
(* the registry's current record of the deployed model, whose            *)
(* deploymentHistory holds the new deployment with status 'Deployed',    *)
(* and the deployment tab is 'monitor'.                                  *)
C15_SelectedIsDeployedRecord ==
    [][ \A i \in 1..Len(timers) :
           HandleDeployDone(i) =>
           /\ selectedModel' = FindModel(mockModels', timers[i].id)
           /\ \E k \in 1..Len(selectedModel'.deploymentHistory) :
                 /\ selectedModel'.deploymentHistory[k].id = timers[i].newId
                 /\ selectedModel'.deploymentHistory[k].status = "Deployed"
           /\ activeDeploymentTab' = "monitor" ]_vars

(* C16, as claimed: the completion of handleDeploy does not change which *)
(* model id is selected; a model selected during the deployment is still *)
(* the selected model after it.                                          *)
C16_CompletionKeepsSelection ==
    [][ \A i \in 1..Len(timers) :
           HandleDeployDone(i) => selectedModel'.id = selectedModel.id ]_vars

(* C17: updateTrafficSplit(d, split) replaces the whole trafficSplit of  *)
(* deployment d by split and changes nothing else in the step of the     *)
(* call: every deployment keeps its id, model, version, environment and  *)
(* status (a canary deployment promoted to the full share of its model   *)
(* is still 'Canary' in environment 'canary'), every other deployment    *)
(* keeps its trafficSplit, and every model keeps its status, its         *)
(* deploymentStatus and its HPO runs; alerts and audit log are the same. *)
C17_SplitReplacedOnly ==
    [][ Called("split") =>
           /\ Len(mockModels') = Len(mockModels)
           /\ \A i \in 1..Len(mockModels) :
                 LET before == mockModels[i]
                     after == mockModels'[i]
                 IN  /\ after = [before EXCEPT !.deploymentHistory =
                                                  after.deploymentHistory]
                     /\ Len(after.deploymentHistory) =
                           Len(before.deploymentHistory)
                     /\ \A k \in 1..Len(before.deploymentHistory) :
                           after.deploymentHistory[k] =
                              IF before.deploymentHistory[k].id = NewCall.id
                              THEN [before.deploymentHistory[k] EXCEPT
                                       !.trafficSplit = NewCall.arg]
                              ELSE before.deploymentHistory[k]
           /\ mockAlerts' = mockAlerts
           /\ mockAuditLogs' = mockAuditLogs ]_vars

(* The initial canary deployment, made with a share of 10% against 90%   *)
(* for the previous model, was promoted: its split is the full share of  *)
(* its model alone, and it is still 'Canary' in environment 'canary'.    *)
C17_Witness ==
    \E c \in 1..Len(callLog) :
        /\ callLog[c].op = "split"
        /\ callLog[c].id \in DeploymentIds
        /\ LET before == DeploymentById(InitialModels, callLog[c].id)
               after == DeploymentById(mockModels, callLog[c].id)
           IN  /\ before.trafficSplit =
                     SplitOf({<<before.modelId, 10>>,
                              <<"previous_model_id", 90>>})
               /\ after.trafficSplit = SplitOf({<<after.modelId, 100>>})
               /\ after.status = "Canary"
               /\ after.environment = "canary"

----------------------------------------------------------------------------
(* Calls with an id that no record has *)

UnknownId == "no-such-id"

(* A model record that is not in the registry *)
UnknownModel ==
    [id |-> UnknownId, version |-> "0.0.1", status |-> "Staging",
     deploymentStatus |-> "Inactive", deploymentHistory |-> <<>>,
     hpoRuns |-> <<>>]

AnyModels == {mockModels[2], UnknownModel}
AnyModelIds == {m.id : m \in AnyModels}
AnyDeploymentIds == DeploymentIds \cup {UnknownId}
AnyAlertIds == {mockAlerts[1].id, UnknownId}
AnyEnvironments == {"production", "canary"}

NextAnyId ==
    \/ \E m \in AnyModels, e \in AnyEnvironments : deployMlModel(m, e, NoCont)
    \/ \E d \in AnyDeploymentIds : rollbackDeployment(d)
    \/ \E d \in AnyDeploymentIds, s \in SplitInputs : updateTrafficSplit(d, s)
    \/ \E m \in AnyModelIds, s \in Strategies : createHPOptionRun(m, s)
    \/ \E a \in AnyAlertIds, n \in NotesInputs : acknowledgeAlert(a, n)
    \/ \E a \in AnyAlertIds, n \in NotesInputs : resolveAlert(a, n)
    \/ TimerFires
    \/ Tick

SpecAnyId == Init /\ [][NextAnyId]_vars

(* The call is one of the operations of C18 and its id is in no record *)
UnknownTarget(call) ==
    CASE call.op \in {"rollback", "split"} -> call.id \notin DeploymentIds
      [] call.op \in {"deploy", "hpo"} -> call.id \notin ModelIds(mockModels)
      [] call.op \in {"ack", "resolve"} -> call.id \notin AlertIds
      [] OTHER -> FALSE

(* The step appends one audit entry of this action and target *)
AuditAppended(action, targetId) ==
    /\ Len(mockAuditLogs') = Len(mockAuditLogs) + 1
    /\ SubSeq(mockAuditLogs', 1, Len(mockAuditLogs)) = mockAuditLogs
    /\ mockAuditLogs'[Len(mockAuditLogs')].action = action
    /\ mockAuditLogs'[Len(mockAuditLogs')].targetId = targetId

(* The steps of a call whose id is in no record change no model,         *)
(* deployment, HPO run or alert, and the step that completes the call    *)
(* appends its audit entry, with the target Target(call).                *)
UnknownIdSteps(Target(_)) ==
    /\ ( /\ Len(callLog') = Len(callLog) + 1
         /\ UnknownTarget(NewCall) ) =>
          /\ mockModels' = mockModels
          /\ mockAlerts' = mockAlerts
          /\ IF NewCall.op \in {"ack", "resolve"}
             THEN /\ AuditAppended(AuditAction(NewCall.op), Target(NewCall))
                  /\ NewCall.doneAt # 0
             ELSE /\ mockAuditLogs' = mockAuditLogs
                  /\ \E i \in 1..Len(timers') :
                        timers'[i].call = Len(callLog')
    /\ \A i \in 1..Len(timers) :
          (Fired(i) /\ UnknownTarget(callLog[timers[i].call])) =>
             LET c == timers[i].call
             IN  /\ mockModels' = mockModels
                 /\ mockAlerts' = mockAlerts
                 /\ AuditAppended(AuditAction(callLog[c].op),
                                  Target(callLog[c]))
                 /\ callLog'[c].doneAt # 0

CallId(call) == call.id

(* C18, as claimed: a call of rollbackDeployment, updateTrafficSplit,    *)
(* createHPOptionRun, acknowledgeAlert or resolveAlert with an id that   *)
(* no record has, or of deployMlModel with a model that is not in the    *)
(* registry, changes no model, deployment, HPO run or alert, completes   *)
(* without an error, and appends its audit entry naming the unknown id.  *)
C18_UnknownIdLogged == [][UnknownIdSteps(CallId)]_vars

(* C18, amended: as above, but the entry of deployMlModel names the id   *)
(* of the new deployment, which is in no record, and not the model's id. *)
C18_UnknownIdNoOp ==
    [][ /\ UnknownIdSteps(AuditTarget)
        /\ \A i \in 1..Len(timers) :
              ( /\ Fired(i)
                /\ timers[i].op = "deploy"
                /\ UnknownTarget(callLog[timers[i].call]) ) =>
              /\ timers[i].newId # timers[i].id
              /\ timers[i].newId \notin DeploymentIds' ]_vars

(* A deployment of a model that is not in the registry and a rollback of *)
(* an unknown deployment have completed and are logged; the models and   *)
(* the alerts are those of the initial state.                            *)
C18_Witness ==
    \E a, b \in 1..Len(callLog) :
        /\ callLog[a].op = "deploy"
        /\ callLog[a].id = UnknownId
        /\ callLog[b].op = "rollback"
        /\ callLog[b].id = UnknownId
        /\ callLog[a].doneAt # 0
        /\ callLog[b].doneAt # 0
        /\ callLog[a].auditId \in AuditIds
        /\ callLog[b].auditId \in AuditIds
        /\ mockModels = InitialModels
        /\ mockAlerts = generateMockAlerts

(* C19, as claimed: an alert whose status is 'Resolved' is 'Resolved'    *)
(* after every later call of acknowledgeAlert and resolveAlert.          *)
C19_ResolvedStaysResolved ==
    [][ \A a \in AlertIds :
           AlertById(mockAlerts, a).status = "Resolved" =>
           AlertById(mockAlerts', a).status = "Resolved" ]_vars

----------------------------------------------------------------------------
(* The view: the alerts of the selected model *)

(* mutant: only the alerts with status 'Active' are in the active list *)
filteredAlerts_ActiveOnly(selected, allAlerts) ==
    IF selected = Null
    THEN [active |-> <<>>, resolved |-> <<>>]
    ELSE LET ofModel(a) == a.modelId = selected.id
             isActive(a) == a.status = "Active"
             isResolved(a) == a.status = "Resolved"
             modelAlerts == SelectSeq(allAlerts, ofModel)
         IN  [active |-> SelectSeq(modelAlerts, isActive),
              resolved |-> SelectSeq(modelAlerts, isResolved)]

(* useMemo(() => ..., [allAlerts, selectedModel]) *)
filteredAlerts(selected, allAlerts) ==
    IF selected = Null
    THEN [active |-> <<>>, resolved |-> <<>>]
    ELSE LET ofModel(a) == a.modelId = selected.id
             isActive(a) == a.status = "Active" \/ a.status = "Acknowledged"
             isResolved(a) == a.status = "Resolved"
             modelAlerts == SelectSeq(allAlerts, ofModel)
         IN  [active |-> SelectSeq(modelAlerts, isActive),
              resolved |-> SelectSeq(modelAlerts, isResolved)]

(* The inputs of filteredAlerts: the selection, which starts as the      *)
(* first model or as null (useState(mlModels[0] || null)) and is changed *)
(* in the registry list, and the alerts, which acknowledgeAlert and      *)
(* resolveAlert change.                                                  *)
InitAlertView ==
    /\ mockModels = InitialModels
    /\ mockAlerts = generateMockAlerts
    /\ mockAuditLogs = generateMockAuditLogs
    /\ timers = <<>>
    /\ nextUuid = FirstFreeUuid
    /\ selectedModel \in {InitialModels[1], Null}
    /\ activeDeploymentTab = "monitor"
    /\ callLog = <<>>
    /\ InitView

NextAlertView ==
    \/ \E i \in 1..Len(mockModels) : SelectModel(i)
    \/ \E a \in AlertIds, n \in NotesInputs : acknowledgeAlert(a, n)
    \/ \E a \in AlertIds, n \in NotesInputs : resolveAlert(a, n)

SpecAlertView == InitAlertView /\ [][NextAlertView]_vars

(* Number of positions of list at which the alert with this id stands *)
Occurrences(list, id) ==
    Cardinality({k \in 1..Len(list) : list[k].id = id})

(* C20: filteredAlerts partitions the alerts of the selected model:      *)
(* every alert of the selected model stands once in exactly one of the   *)
(* lists, in active if its status is 'Active' or 'Acknowledged' and in   *)
(* resolved if it is 'Resolved'; no alert of another model and nothing   *)
(* that is not an alert stands in either list; both lists are empty when *)
(* no model is selected.                                                 *)
C20_FilteredAlertsPartition ==
    LET lists == filteredAlerts(selectedModel, mockAlerts)
    IN  /\ Range(lists.active) \cup Range(lists.resolved)
              \subseteq Range(mockAlerts)
        /\ \A a \in Range(mockAlerts) :
              LET mine == selectedModel # Null
                            /\ a.modelId = selectedModel.id
              IN  /\ Occurrences(lists.active, a.id) =
                        IF mine /\ a.status \in {"Active", "Acknowledged"}
                        THEN 1 ELSE 0
                  /\ Occurrences(lists.resolved, a.id) =
                        IF mine /\ a.status = "Resolved" THEN 1 ELSE 0
                  /\ mine => Occurrences(lists.active, a.id) +
                               Occurrences(lists.resolved, a.id) = 1
        /\ selectedModel = Null =>
              lists = [active |-> <<>>, resolved |-> <<>>]

(* The selected model has an acknowledged alert in the active list and    *)
(* an alert in the resolved list, and another model has an alert.         *)
C20_Witness ==
    LET lists == filteredAlerts(selectedModel, mockAlerts)
    IN  /\ selectedModel # Null
        /\ \E k \in 1..Len(lists.active) :
              lists.active[k].status = "Acknowledged"
        /\ lists.resolved # <<>>
        /\ \E a \in Range(mockAlerts) : a.modelId # selectedModel.id
        /\ \E c \in 1..Len(callLog) : callLog[c].op = "ack"

----------------------------------------------------------------------------
(* The view: saving a new alert *)

AlertTabs == {"active", "resolved", "configure"}

(* AlertConfigurationForm.handleSubmit: the alert passed to onSave *)
NewAlert(id, modelId) ==
    [id |-> id, modelId |-> modelId, status |-> "Active",
     assignedTo |-> "undefined", resolutionNotes |-> "undefined"]

(* The whole seconds after which a timer of SaveAlertDelayMs set in this  *)
(* second expires: one second later if it is set in the first half of the *)
(* second, two if in the second half.  A save timer with two seconds left *)
(* was set in the second half of this second, and so is every later one.  *)
SaveAlertSeconds ==
    IF \E j \in 1..Len(timers) :
          /\ timers[j].op = "save"
          /\ timers[j].remaining = SaveAlertDelayMs \div MsPerSecond + 1
    THEN {SaveAlertDelayMs \div MsPerSecond + 1}
    ELSE {SaveAlertDelayMs \div MsPerSecond,
          SaveAlertDelayMs \div MsPerSecond + 1}

(* mutant: the alert is added to the alerts *)
handleSaveAlert_Append(alert) ==
    /\ CanCall
    /\ alertConfigLoading' = TRUE
    /\ mockAlerts' = Append(mockAlerts, alert)
    /\ \E r \in SaveAlertSeconds :
          timers' = Append(timers,
                           [op |-> "save", remaining |-> r,
                            call |-> Len(callLog) + 1, id |-> alert.id,
                            newId |-> "", cont |-> NoCont])
    /\ callLog' = Append(callLog, Call("save", alert.id, activeAlertTab, ""))
    /\ UNCHANGED <<mockModels, mockAuditLogs, selectedModel,
                   activeDeploymentTab, mockFeatures, activeAlertTab,
                   selectedComparisonModels, docsVars, chatVars,
                   analysisVars, requestVars, deployFormVars>>

(* handleSaveAlert(alert), up to its await *)
handleSaveAlert(alert) ==
    /\ CanCall
    /\ alertConfigLoading' = TRUE
    /\ \E r \in SaveAlertSeconds :
          timers' = Append(timers,
                           [op |-> "save", remaining |-> r,
                            call |-> Len(callLog) + 1, id |-> alert.id,
                            newId |-> "", cont |-> NoCont])
    /\ callLog' = Append(callLog, Call("save", alert.id, activeAlertTab, ""))
    /\ UNCHANGED <<mockModels, mockAlerts, mockAuditLogs, selectedModel,
                   activeDeploymentTab, mockFeatures, activeAlertTab,
                   selectedComparisonModels, docsVars, chatVars,
                   analysisVars, requestVars, deployFormVars>>

(* Submitting the alert form of the selected model: the form draws the   *)
(* id of the alert and calls onSave                                      *)
AlertFormSubmit ==
    /\ selectedModel # Null
    /\ nextUuid' = nextUuid + 1
    /\ handleSaveAlert(NewAlert(uuidv4(nextUuid), selectedModel.id))

(* handleSaveAlert after its await *)
SaveAlertTimer(i) ==
    /\ CanFire(i)
    /\ timers[i].op = "save"
    /\ alertConfigLoading' = FALSE
    /\ activeAlertTab' = "active"
    /\ timers' = RemoveAt(timers, i)
    /\ callLog' = Complete(callLog, timers[i].call, "")
    /\ UNCHANGED <<mockModels, mockAlerts, mockAuditLogs, nextUuid,
                   selectedModel, activeDeploymentTab, mockFeatures,
                   selectedComparisonModels, docsVars, chatVars,
                   analysisVars, requestVars, deployFormVars>>

(* The form is shown in any of the alert tabs *)
InitAlertForm ==
    /\ mockModels = InitialModels
    /\ mockAlerts = generateMockAlerts
    /\ mockAuditLogs = generateMockAuditLogs
    /\ timers = <<>>
    /\ nextUuid = FirstFreeUuid
    /\ selectedModel = FindModel(InitialModels, InitialModels[1].id)
    /\ activeDeploymentTab = "monitor"
    /\ callLog = <<>>
    /\ mockFeatures = generateMockFeatures
    /\ activeAlertTab \in AlertTabs
    /\ alertConfigLoading = FALSE
    /\ selectedComparisonModels = <<>>
    /\ aiDocs = ""
    /\ isDocsLoading = FALSE
    /\ aiChatInput = ""
    /\ aiChatHistory = <<>>
    /\ isAiChatLoading = FALSE
    /\ fileName = ""
    /\ fileContent = ""
    /\ analysis = ""
    /\ loading = FALSE
    /\ error = ""
    /\ requests = <<>>
    /\ nextRequest = 1
    /\ formEnvironment = "production"
    /\ formTrafficSplitConfig = "100"
    /\ formPartnerModelId = ""

(* Every operation of the context, on one record each, and the alert form *)
NextAlertForm ==
    \/ AlertFormSubmit
    \/ \E i \in 1..Len(timers) : SaveAlertTimer(i)
    \/ retrainMlModel(mockModels[2].id)
    \/ deployMlModel(mockModels[2], "production", NoCont)
    \/ rollbackDeployment(mockModels[1].deploymentHistory[1].id)
    \/ \E s \in SplitInputs :
          updateTrafficSplit(mockModels[1].deploymentHistory[2].id, s)
    \/ \E s \in Strategies : createHPOptionRun(mockModels[2].id, s)
    \/ acknowledgeAlert(mockAlerts[1].id, "checked")
    \/ resolveAlert(mockAlerts[1].id, "")
    \/ TimerFires
    \/ Tick

SpecAlertForm == InitAlertForm /\ [][NextAlertForm]_vars

(* C21: models, alerts and features are created only by the mock          *)
(* generators: no step adds a model, an alert or a feature.  The call of  *)
(* handleSaveAlert sets alertConfigLoading and leaves the alerts and all  *)
(* other state as they are; the step after its wait sets                  *)
(* alertConfigLoading to false and the alert tab to 'active' and changes  *)
(* nothing else.                                                          *)
C21_NothingCreated ==
    [][ /\ [k \in 1..Len(mockModels') |-> mockModels'[k].id] =
              [k \in 1..Len(mockModels) |-> mockModels[k].id]
        /\ [k \in 1..Len(mockAlerts') |-> mockAlerts'[k].id] =
              [k \in 1..Len(mockAlerts) |-> mockAlerts[k].id]
        /\ mockFeatures' = mockFeatures
        /\ Called("save") =>
              /\ alertConfigLoading'
              /\ UNCHANGED <<mockModels, mockAlerts, mockAuditLogs,
                             mockFeatures, selectedModel, activeDeploymentTab,
                             activeAlertTab, selectedComparisonModels,
                             docsVars, chatVars, analysisVars, requestVars>>
        /\ \A i \in 1..Len(timers) :
              (Fired(i) /\ timers[i].op = "save") =>
              /\ ~alertConfigLoading'
              /\ activeAlertTab' = "active"
              /\ UNCHANGED <<mockModels, mockAlerts, mockAuditLogs,
                             mockFeatures, nextUuid, selectedModel,
                             activeDeploymentTab, selectedComparisonModels,
                             docsVars, chatVars, analysisVars, requestVars>>
      ]_vars

(* An alert was saved from the 'configure' tab after an alert had been    *)
(* resolved: the wait is over, the tab is 'active', and the alerts are    *)
(* the three of the generator.                                            *)
C21_Witness ==
    \E a, b \in 1..Len(callLog) :
        /\ callLog[a].op = "resolve"
        /\ callLog[b].op = "save"
        /\ callLog[b].arg = "configure"
        /\ callLog[b].doneAt # 0
        /\ callLog[b].id \notin AlertIds
        /\ ~alertConfigLoading
        /\ activeAlertTab = "active"
        /\ Len(mockAlerts) = Len(generateMockAlerts)
        /\ Len(mockFeatures) = Len(baseFeatures)

----------------------------------------------------------------------------
(* The view: the models selected for comparison *)

(* How often the record object of model id has been replaced by a new    *)
(* object.  The updaters of retrainMlModel, deployMlModel and            *)
(* createHPOptionRun, at the call and after the wait, copy the model     *)
(* with the id they are given and keep the other objects; the updaters   *)
(* of rollbackDeployment and updateTrafficSplit copy every model.        *)
Generation(log, id) ==
    Cardinality({c \in 1..Len(log) :
                    /\ log[c].op \in {"retrain", "deploy", "hpo"}
                    /\ log[c].id = id})
    + Cardinality({c \in Completed(log) :
                    /\ log[c].op \in {"retrain", "deploy", "hpo"}
                    /\ log[c].id = id})
    + Cardinality({c \in 1..Len(log) : log[c].op \in {"rollback", "split"}})

(* The object that is the i-th element of mlModels *)
ModelObject(i) ==
    [id |-> mockModels[i].id,
     generation |-> Generation(callLog, mockModels[i].id)]

(* prev.includes(model) ? prev.filter(m => m.id !== model.id)            *)
(*                      : [...prev, model]                               *)
ComparisonUpdate(prev, model) ==
    IF \E k \in 1..Len(prev) : prev[k] = model
    THEN LET otherId(m) == m.id # model.id
         IN  SelectSeq(prev, otherId)
    ELSE Append(prev, model)

handleModelComparisonSelection(model) ==
    /\ selectedComparisonModels' =
          ComparisonUpdate(selectedComparisonModels, model)
    /\ UNCHANGED <<coreVars, deployFormVars, mockFeatures, alertFormVars, docsVars, chatVars,
                   analysisVars, requestVars>>

(* The comparison button of the i-th model of the registry *)
ComparisonButton(i) ==
    /\ i \in 1..Len(mockModels)
    /\ handleModelComparisonSelection(ModelObject(i))

(* The Rollback button of the k-th deployment of the selected model, in  *)
(* the 'monitor' tab, which lists the deployments that are not 'Inactive' *)
RollbackButton(k) ==
    /\ selectedModel # Null
    /\ activeDeploymentTab = "monitor"
    /\ k \in 1..Len(selectedModel.deploymentHistory)
    /\ selectedModel.deploymentHistory[k].status # "Inactive"
    /\ rollbackDeployment(selectedModel.deploymentHistory[k].id)

ComparedModels == 1..2

NextComparison ==
    \/ \E i \in ComparedModels : ComparisonButton(i)
    \/ RetrainModelButton
    \/ /\ selectedModel # Null
       /\ \E k \in 1..Len(selectedModel.deploymentHistory) : RollbackButton(k)
    \/ TimerFires
    \/ Tick

SpecComparison == Init /\ [][NextComparison]_vars

(* The ids of the models in the comparison *)
ComparedIds(list) == {list[k].id : k \in 1..Len(list)}

(* C22, as claimed: selectedComparisonModels never holds two entries     *)
(* with the same model id, and every click on a comparison button        *)
(* toggles the membership of that model and of no other, also after a    *)
(* context operation has replaced the model records.                     *)
C22_ComparisonToggles ==
    /\ [](\A j, k \in 1..Len(selectedComparisonModels) :
             j # k => selectedComparisonModels[j].id #
                         selectedComparisonModels[k].id)
    /\ [][ selectedComparisonModels' # selectedComparisonModels =>
              \E m \in ModelIds(mockModels) :
                 /\ (m \in ComparedIds(selectedComparisonModels')) =
                       (m \notin ComparedIds(selectedComparisonModels))
                 /\ ComparedIds(selectedComparisonModels') \ {m} =
                       ComparedIds(selectedComparisonModels) \ {m}
                 /\ Len(selectedComparisonModels') =
                       Cardinality(ComparedIds(selectedComparisonModels'))
         ]_vars

----------------------------------------------------------------------------
(* Requests to the AI service *)

(* The texts of a reply (response.text may be empty) and the messages of *)
(* an error                                                              *)
ReplyTexts == {"", "text"}
ErrorMessages == {"", "quota exceeded"}

(* How a request ends: the promise resolves with a text or rejects with  *)
(* an error that has a message                                           *)
Outcomes ==
    {[ok |-> TRUE, text |-> t] : t \in ReplyTexts}
       \cup {[ok |-> FALSE, text |-> m] : m \in ErrorMessages}

Request(kind, message) ==
    [id |-> nextRequest, kind |-> kind, message |-> message]

CanRequest == nextRequest <= MaxRequests

(* Sending a request: ai.models.generateContent, chat.sendMessage *)
Send(kind, message) ==
    /\ CanRequest
    /\ requests' = Append(requests, Request(kind, message))
    /\ nextRequest' = nextRequest + 1

(* The requests of this kind that await their reply *)
InFlight(kind) == {i \in 1..Len(requests) : requests[i].kind = kind}

----------------------------------------------------------------------------
(* The view: the AI documentation card *)

(* generateDocs(model), up to its await *)
generateDocs(model) ==
    /\ aiDocs' = ""
    /\ isDocsLoading' = TRUE
    /\ Send("docs", model.id)
    /\ UNCHANGED <<coreVars, deployFormVars, mockFeatures, alertFormVars,
                   selectedComparisonModels, chatVars, analysisVars>>

(* The Generate AI Docs button, disabled={isDocsLoading} *)
GenerateDocsButton ==
    /\ selectedModel # Null
    /\ ~isDocsLoading
    /\ generateDocs(selectedModel)

(* generateDocs after its await: try, catch and finally *)
DocsReply(i, outcome) ==
    /\ i \in InFlight("docs")
    /\ aiDocs' =
          IF outcome.ok
          THEN IF outcome.text # "" THEN outcome.text
               ELSE "No documentation generated."
          ELSE "Could not generate documentation. Error: " \o outcome.text
    /\ isDocsLoading' = FALSE
    /\ requests' = RemoveAt(requests, i)
    /\ UNCHANGED <<coreVars, deployFormVars, mockFeatures, alertFormVars,
                   selectedComparisonModels, chatVars, analysisVars,
                   nextRequest>>

(* The text shown when generateAiContent returns null *)
ReportFallback(kind) ==
    CASE kind = "comparison" -> "Could not generate AI comparison analysis."
      [] kind = "features" -> "Could not generate feature ideas."

(* The onClick of a report button, up to the await of generateAiContent *)
ReportButton(kind) ==
    /\ Send(kind, "")
    /\ UNCHANGED <<coreVars, deployFormVars, mockFeatures, alertFormVars,
                   selectedComparisonModels, docsVars, chatVars,
                   analysisVars>>

(* Generate AI Analysis Report, shown when models are selected *)
ComparisonReportButton ==
    /\ selectedComparisonModels # <<>>
    /\ ReportButton("comparison")

(* AI Suggest New Features, in the 'browse' tab of the feature store,    *)
(* which is the tab shown at the start                                   *)
FeatureSuggestionsButton == ReportButton("features")

(* generateAiContent returns response.text || null, or null after an     *)
(* error; the onClick then sets aiDocs and isDocsLoading                 *)
ReportReply(i, outcome) ==
    /\ i \in InFlight("comparison") \cup InFlight("features")
    /\ aiDocs' =
          IF outcome.ok /\ outcome.text # "" THEN outcome.text
          ELSE ReportFallback(requests[i].kind)
    /\ isDocsLoading' = FALSE
    /\ requests' = RemoveAt(requests, i)
    /\ UNCHANGED <<coreVars, deployFormVars, mockFeatures, alertFormVars,
                   selectedComparisonModels, chatVars, analysisVars,
                   nextRequest>>

NextDocs ==
    \/ GenerateDocsButton
    \/ \E i \in ComparedModels : ComparisonButton(i)
    \/ ComparisonReportButton
    \/ FeatureSuggestionsButton
    \/ \E i \in 1..Len(requests), o \in Outcomes : DocsReply(i, o)
    \/ \E i \in 1..Len(requests), o \in Outcomes : ReportReply(i, o)

SpecDocs == Init /\ [][NextDocs]_vars

(* C23, as claimed: isDocsLoading is true whenever a generateDocs        *)
(* request is in flight, and at most one generateDocs request is in      *)
(* flight, also when a report action that writes aiDocs completes.       *)
C23_OneDocsRequest ==
    /\ InFlight("docs") # {} => isDocsLoading
    /\ Cardinality(InFlight("docs")) <= 1

----------------------------------------------------------------------------
(* The view: the AI chat *)

(* What can be typed into the chat input *)
ChatInputs == {"", " ", "hi", " hi "}

(* mutant: the text is taken as it is *)
trim_Identity(text) == text

(* String.prototype.trim on the texts of ChatInputs *)
trim(text) ==
    CASE text = "" -> ""
      [] text = " " -> ""
      [] text = "hi" -> "hi"
      [] text = " hi " -> "hi"
      [] OTHER -> text

ChatEntry(role, text) == [role |-> role, text |-> text]

(* onChange of the input, which is disabled={isAiChatLoading} *)
SetAiChatInput(text) ==
    /\ ~isAiChatLoading
    /\ text # aiChatInput
    /\ aiChatInput' = text
    /\ UNCHANGED <<coreVars, deployFormVars, mockFeatures, alertFormVars,
                   selectedComparisonModels, docsVars, aiChatHistory,
                   isAiChatLoading, analysisVars, requestVars>>

(* handleAIChatSubmit, up to its await *)
handleAIChatSubmit ==
    IF trim(aiChatInput) = ""
    THEN UNCHANGED vars
    ELSE LET currentInput == aiChatInput
         IN  /\ aiChatInput' = ""
             /\ aiChatHistory' =
                   Append(aiChatHistory, ChatEntry("user", currentInput))
             /\ isAiChatLoading' = TRUE
             /\ Send("chat", currentInput)
             /\ UNCHANGED <<coreVars, deployFormVars, mockFeatures, alertFormVars,
                            selectedComparisonModels, docsVars, analysisVars>>

(* The Send button, disabled={isAiChatLoading || !aiChatInput.trim()} *)
ChatSendButton ==
    /\ ~isAiChatLoading
    /\ trim(aiChatInput) # ""
    /\ handleAIChatSubmit

(* The Enter key in the input, which is disabled={isAiChatLoading} *)
ChatEnterKey ==
    /\ ~isAiChatLoading
    /\ handleAIChatSubmit

(* mutant: the reply text is shown as it is *)
ChatReplyText_Raw(outcome) ==
    IF outcome.ok
    THEN outcome.text
    ELSE "Sorry, I couldn't process that. Please try again. Error: "
            \o outcome.text

(* The text of the 'model' entry: responseText || "No response.", or the *)
(* apology of the catch block                                            *)
ChatReplyText(outcome) ==
    IF outcome.ok
    THEN IF outcome.text # "" THEN outcome.text ELSE "No response."
    ELSE "Sorry, I couldn't process that. Please try again. Error: "
            \o outcome.text

(* handleAIChatSubmit after its await: try, catch and finally *)
ChatReply(i, outcome) ==
    /\ i \in InFlight("chat")
    /\ aiChatHistory' =
          Append(aiChatHistory, ChatEntry("model", ChatReplyText(outcome)))
    /\ isAiChatLoading' = FALSE
    /\ requests' = RemoveAt(requests, i)
    /\ UNCHANGED <<coreVars, deployFormVars, mockFeatures, alertFormVars,
                   selectedComparisonModels, docsVars, aiChatInput,
                   analysisVars, nextRequest>>

ChatReplies == \E i \in 1..Len(requests), o \in Outcomes : ChatReply(i, o)

NextChat ==
    \/ \E t \in ChatInputs : SetAiChatInput(t)
    \/ ChatSendButton
    \/ ChatEnterKey
    \/ ChatReplies

SpecChat == Init /\ [][NextChat]_vars

(* Every request to the AI service is answered or fails *)
FairChat == SpecChat /\ WF_vars(ChatReplies)

(* C24: the chat history alternates 'user' and 'model' entries, starting *)
(* with 'user'; isAiChatLoading is true exactly when the last entry is a *)
(* 'user' entry, and exactly then one chat request, with the text of     *)
(* that entry, is in flight, and otherwise none; no entry of the user    *)
(* and no request has a blank (empty or whitespace-only) text.           *)
C24_ChatAlternates ==
    LET n == Len(aiChatHistory)
        waiting == n > 0 /\ aiChatHistory[n].role = "user"
    IN  /\ \A k \in 1..n :
              aiChatHistory[k].role = IF k % 2 = 1 THEN "user" ELSE "model"
        /\ isAiChatLoading = waiting
        /\ Cardinality(InFlight("chat")) = IF waiting THEN 1 ELSE 0
        /\ \A i \in InFlight("chat") :
              requests[i].message = aiChatHistory[n].text
        /\ \A k \in 1..n :
              aiChatHistory[k].role = "user" =>
                 aiChatHistory[k].text \notin {"", " "}
        /\ \A i \in InFlight("chat") : requests[i].message \notin {"", " "}

(* The first message was answered and the second, ' hi ', awaits its     *)
(* reply: the input is empty and one request is in flight.               *)
C24_Witness ==
    /\ Len(aiChatHistory) = 3
    /\ aiChatHistory[2].role = "model"
    /\ aiChatHistory[3].text = " hi "
    /\ isAiChatLoading
    /\ aiChatInput = ""
    /\ Cardinality(InFlight("chat")) = 1

(* The numbers of the messages that can be submitted *)
Messages == 1..(MaxRequests + 1)

Apology == "Sorry, I couldn't process that. Please try again. Error: "

(* C25: every submitted message receives exactly one 'model' entry: once *)
(* message n, the entry 2n - 1, is submitted, the history eventually has *)
(* its reply as entry 2n with isAiChatLoading false, and no step adds    *)
(* anything but one entry; the reply is the reply text, 'No response.'   *)
(* for an empty reply text, or the apology with the error message; the   *)
(* step that submits a message empties the input.                        *)
C25_EveryMessageAnswered ==
    /\ \A n \in Messages :
          (Len(aiChatHistory) = 2 * n - 1) ~>
             ( /\ Len(aiChatHistory) = 2 * n
               /\ aiChatHistory[2 * n].role = "model"
               /\ ~isAiChatLoading )
    /\ [][ /\ Len(aiChatHistory') \in
                 {Len(aiChatHistory), Len(aiChatHistory) + 1}
           /\ SubSeq(aiChatHistory', 1, Len(aiChatHistory)) = aiChatHistory
           /\ Len(aiChatHistory') = Len(aiChatHistory) + 1 =>
                 LET entry == aiChatHistory'[Len(aiChatHistory')]
                 IN  IF Len(aiChatHistory') % 2 = 1
                     THEN /\ entry = ChatEntry("user", aiChatInput)
                          /\ aiChatInput' = ""
                          /\ isAiChatLoading'
                     ELSE /\ entry.role = "model"
                          /\ ~isAiChatLoading'
                          /\ \/ entry.text \in (ReplyTexts \ {""})
                                                  \cup {"No response."}
                             \/ \E m \in ErrorMessages :
                                   entry.text = Apology \o m
         ]_vars

(* One message got 'No response.' for an empty reply text and the next   *)
(* one the apology with the message of the error; the chat is idle.      *)
C25_Witness ==
    /\ Len(aiChatHistory) = 4
    /\ aiChatHistory[2] = ChatEntry("model", "No response.")
    /\ aiChatHistory[4] = ChatEntry("model", Apology \o "quota exceeded")
    /\ ~isAiChatLoading
    /\ requests = <<>>

----------------------------------------------------------------------------
(* DeepAnalysisTool: the deep file analysis card *)

(* What can be typed into the file name and the file content inputs *)
FileNames == {"", " ", "a.ts"}
FileContents == {"", " ", "x"}

(* onChange of the file name input *)
SetFileName(text) ==
    /\ text # fileName
    /\ fileName' = text
    /\ UNCHANGED <<coreVars, deployFormVars, mockFeatures, alertFormVars,
                   selectedComparisonModels, docsVars, chatVars,
                   fileContent, analysis, loading, error, requestVars>>

(* onChange of the file content textarea *)
SetFileContent(text) ==
    /\ text # fileContent
    /\ fileContent' = text
    /\ UNCHANGED <<coreVars, deployFormVars, mockFeatures, alertFormVars,
                   selectedComparisonModels, docsVars, chatVars,
                   fileName, analysis, loading, error, requestVars>>

(* mutant: the inputs are not validated *)
handleAnalyze_Unchecked ==
    /\ loading' = TRUE
    /\ error' = ""
    /\ analysis' = ""
    /\ Send("analysis", fileName)
    /\ UNCHANGED <<coreVars, deployFormVars, mockFeatures, alertFormVars,
                   selectedComparisonModels, docsVars, chatVars,
                   fileName, fileContent>>

(* handleAnalyze, up to its await *)
handleAnalyze ==
    IF trim(fileName) = "" \/ trim(fileContent) = ""
    THEN /\ error' = "Please provide both a file name and content."
         /\ UNCHANGED <<coreVars, deployFormVars, mockFeatures, alertFormVars,
                        selectedComparisonModels, docsVars, chatVars,
                        fileName, fileContent, analysis, loading,
                        requestVars>>
    ELSE /\ loading' = TRUE
         /\ error' = ""
         /\ analysis' = ""
         /\ Send("analysis", fileName)
         /\ UNCHANGED <<coreVars, deployFormVars, mockFeatures, alertFormVars,
                        selectedComparisonModels, docsVars, chatVars,
                        fileName, fileContent>>

(* The Run Deep Analysis button, disabled={loading} *)
AnalyzeButton ==
    /\ ~loading
    /\ handleAnalyze

(* mutant: the reply text is taken as it is *)
AnalysisText_Raw(outcome) == outcome.text

(* response.text || 'No analysis generated.' *)
AnalysisText(outcome) ==
    IF outcome.text # "" THEN outcome.text ELSE "No analysis generated."

(* (err as Error).message || 'An error occurred during analysis.' *)
AnalysisError(outcome) ==
    IF outcome.text # "" THEN outcome.text
    ELSE "An error occurred during analysis."

(* handleAnalyze after its await: try, catch and finally *)
AnalysisReply(i, outcome) ==
    /\ i \in InFlight("analysis")
    /\ IF outcome.ok
       THEN /\ analysis' = AnalysisText(outcome)
            /\ error' = error
       ELSE /\ error' = AnalysisError(outcome)
            /\ analysis' = analysis
    /\ loading' = FALSE
    /\ requests' = RemoveAt(requests, i)
    /\ UNCHANGED <<coreVars, deployFormVars, mockFeatures, alertFormVars,
                   selectedComparisonModels, docsVars, chatVars,
                   fileName, fileContent, nextRequest>>

AnalysisReplies ==
    \E i \in 1..Len(requests), o \in Outcomes : AnalysisReply(i, o)

NextAnalysis ==
    \/ \E t \in FileNames : SetFileName(t)
    \/ \E t \in FileContents : SetFileContent(t)
    \/ AnalyzeButton
    \/ AnalysisReplies

SpecAnalysis == Init /\ [][NextAnalysis]_vars

(* The inputs of the card are blank: empty or whitespace-only *)
BlankAnalysisInput == trim(fileName) = "" \/ trim(fileContent) = ""

ValidationError == "Please provide both a file name and content."

(* C26: handleAnalyze called with a blank (empty or whitespace-only)    *)
(* file name or file content sets error to 'Please provide both a file  *)
(* name and content.', sends no request to the AI service and leaves    *)
(* loading false. The button is the only caller and is enabled only     *)
(* while loading is false; with blank inputs no step changes anything   *)
(* of the card other than the inputs and the error, the error becomes   *)
(* the validation message, and no request was ever sent for blank       *)
(* inputs.                                                              *)
C26_BlankInputRejected ==
    /\ [][(~loading /\ BlankAnalysisInput
             /\ fileName' = fileName /\ fileContent' = fileContent)
          => /\ error' \in {error, ValidationError}
             /\ loading' = FALSE
             /\ analysis' = analysis
             /\ requests' = requests
             /\ nextRequest' = nextRequest
         ]_vars
    /\ [](\A i \in 1..Len(requests) :
             requests[i].kind = "analysis"
                => trim(requests[i].message) # "")

(* C26 witness: the button was clicked with a whitespace-only content:  *)
(* the validation message is shown and no request was ever sent         *)
C26_Witness ==
    /\ fileName = "a.ts"
    /\ fileContent = " "
    /\ error = ValidationError
    /\ ~loading
    /\ requests = <<>>
    /\ nextRequest = 1

(* A step in which an analysis request ends *)
AnalysisEnds == Len(requests') < Len(requests)

(* C27: in DeepAnalysisTool, loading is true exactly while an analysis  *)
(* request is in flight and at most one request is in flight at a time; *)
(* when the request ends loading is false whether it succeeded or       *)
(* failed, with analysis non-empty ('No analysis generated.' for an     *)
(* empty reply) after a success and error non-empty after a failure.    *)
(* Both texts are empty while the request is in flight, so after its    *)
(* end exactly one of them is set: the report, which is a reply text or *)
(* 'No analysis generated.', or the error.                              *)
C27_LoadingWhileInFlight ==
    /\ [](/\ loading <=> InFlight("analysis") # {}
          /\ Cardinality(InFlight("analysis")) <= 1
          /\ loading => analysis = "" /\ error = "")
    /\ [][AnalysisEnds
          => /\ loading /\ ~loading'
             /\ \/ /\ analysis' # "" /\ error' = ""
                   /\ analysis' \in (ReplyTexts
                                       \cup {"No analysis generated."})
                \/ /\ error' # "" /\ analysis' = ""
         ]_vars

(* C27 witness: the second request has ended with an empty reply: the   *)
(* card is idle and shows 'No analysis generated.' without an error     *)
C27_Witness ==
    /\ ~loading
    /\ InFlight("analysis") = {}
    /\ nextRequest = 3
    /\ analysis = "No analysis generated."
    /\ error = ""

(* C28: in DeepAnalysisTool, analysis and error are never both          *)
(* non-empty in any reachable state: an error message is never shown    *)
(* together with an analysis report of an earlier run.                  *)
C28_ReportOrError == ~(analysis # "" /\ error # "")

----------------------------------------------------------------------------
(* The view: the deployment form *)

(* What can be entered into the number input (min 0, max 100) and into   *)
(* the partner input; 'model-123' is the id of the selected model        *)
FormPercentages == {"0", "10", "50", "100"}
FormPartnerIds == {"", "model-456", "model-123"}

(* The form is rendered for the selected model on the 'deploy' tab *)
FormShown == selectedModel # Null /\ activeDeploymentTab = "deploy"

(* The two split inputs are rendered for 'canary' and 'ab_test' only *)
SplitInputsShown ==
    FormShown /\ formEnvironment \in {"canary", "ab_test"}

(* onChange of the environment select *)
SetEnvironment(e) ==
    /\ FormShown
    /\ e # formEnvironment
    /\ formEnvironment' = e
    /\ UNCHANGED <<coreVars, panelVars, formTrafficSplitConfig,
                   formPartnerModelId>>

(* onChange of the traffic split input *)
SetTrafficSplitConfig(text) ==
    /\ SplitInputsShown
    /\ text # formTrafficSplitConfig
    /\ formTrafficSplitConfig' = text
    /\ UNCHANGED <<coreVars, panelVars, formEnvironment, formPartnerModelId>>

(* onChange of the partner model input *)
SetPartnerModelId(text) ==
    /\ SplitInputsShown
    /\ text # formPartnerModelId
    /\ formPartnerModelId' = text
    /\ UNCHANGED <<coreVars, panelVars, formEnvironment,
                   formTrafficSplitConfig>>

(* onSubmit of the form, with the state of its inputs *)
DeploymentFormSubmit ==
    /\ FormShown
    /\ HandleSubmit(formEnvironment, formTrafficSplitConfig,
                    formPartnerModelId)

NextDeploymentForm ==
    \/ \E t \in DeploymentTabs : SetActiveDeploymentTab(t)
    \/ \E e \in Environments : SetEnvironment(e)
    \/ \E c \in FormPercentages : SetTrafficSplitConfig(c)
    \/ \E p \in FormPartnerIds : SetPartnerModelId(p)
    \/ DeploymentFormSubmit
    \/ TimerFires
    \/ Tick

SpecDeploymentForm == Init /\ [][NextDeploymentForm]_vars

(* The sum of the shares of a split *)
RECURSIVE SumShares(_)
SumShares(shares) ==
    IF shares = {} THEN 0
    ELSE LET p == CHOOSE q \in shares : TRUE
         IN  p[2] + SumShares(shares \ {p})

(* The split the view was given by the form in this step: handleDeploy  *)
(* keeps it for the time after the deployment                           *)
SubmittedSplit == timers'[Len(timers')].cont.trafficSplit

(* C29: for the 'canary' and 'ab_test' environments and a traffic       *)
(* percentage p with 0 <= p <= 100, the split built by the deployment   *)
(* form assigns p/100 to the deployed model and, when p < 100, the      *)
(* remainder to the partner model id if one is entered and otherwise to *)
(* 'current_production', so the shares of the split sum to 1 for every  *)
(* partner id, including a partner id equal to the deployed model's id; *)
(* for 'staging' and 'production' no split is built.  Shares are in     *)
(* percent here, so the sum is 100.                                     *)
C29_FormSplitSumsToOne ==
    [][(Called("deploy") /\ FormShown)
       => LET p == parseFloat(formTrafficSplitConfig)
              rest == IF formPartnerModelId # "" THEN formPartnerModelId
                      ELSE "current_production"
          IN  IF formEnvironment \in {"canary", "ab_test"}
              THEN (p # NaN /\ p >= 0 /\ p <= 100)
                   => /\ SubmittedSplit.def
                      /\ <<selectedModel.id, p>> \in SubmittedSplit.shares
                      /\ p < 100
                           => <<rest, 100 - p>> \in SubmittedSplit.shares
                      /\ SumShares(SubmittedSplit.shares) = 100
              ELSE SubmittedSplit = NoSplit
      ]_vars

====
